---- MODULE Spec2Model ----
(***************************************************************************)
(* Model of the container image installer of dangerzone:                   *)
(* GlobalCommon.install_container and GlobalCommon.is_container_installed  *)
(* (src/dangerzone/global_common.py), together with the container runtime  *)
(* (podman/docker) they drive through `image list`, `load` and `rmi`.      *)
(*                                                                         *)
(* Text is a sequence of one-character strings, so that str.strip() and    *)
(* the joining of the listing's lines are computed, not assumed.           *)
(***************************************************************************)
EXTENDS Integers, Sequences, FiniteSets, TLC

(* ---- bounds of the model ---- *)
MaxLen == 3        \* longest decompressed archive, in bytes
MaxChunk == 2      \* largest chunk size tried (the code's value is 10240)
MaxCalls == 2      \* install_container calls in one behaviour

(* ---- text ---- *)
NL == "\n"
Whitespace == {NL, " "}
IdA == <<"a">>
IdB == <<"b">>
Ids == {IdA, IdB}
NoImage == <<>>

RECURSIVE LStrip(_)
LStrip(s) ==
    IF s = <<>> THEN s
    ELSE IF Head(s) \in Whitespace THEN LStrip(Tail(s)) ELSE s

RECURSIVE RStrip(_)
RStrip(s) ==
    IF s = <<>> THEN s
    ELSE IF s[Len(s)] \in Whitespace THEN RStrip(SubSeq(s, 1, Len(s) - 1)) ELSE s

\* the first whitespace-delimited word of s
FirstLine(s) ==
    LET t == LStrip(s)
        cut == {i \in 1..Len(t) : t[i] \in Whitespace}
    IN  IF cut = {} THEN t
        ELSE SubSeq(t, 1, (CHOOSE i \in cut : \A j \in cut : i <= j) - 1)

\* str.strip(): only leading and trailing whitespace is removed
Strip(s) == RStrip(LStrip(s))

(* ---- the runtime's image store ---- *)
\* The images registered under container_name, one per tag, in listing order.
TagOrder == <<"latest", "old">>
Tags == {TagOrder[i] : i \in 1..Len(TagOrder)}
Stores == [Tags -> Ids \cup {NoImage}]

RECURSIVE ListFrom(_, _)
ListFrom(st, i) ==
    IF i > Len(TagOrder) THEN <<>>
    ELSE (IF st[TagOrder[i]] = NoImage THEN <<>> ELSE st[TagOrder[i]] \o <<NL>>)
         \o ListFrom(st, i + 1)

\* stdout of `image list --format {{.ID}} container_name`: one line per row
ListOutput(st) == ListFrom(st, 1)

\* number of rows the store holds under container_name
Listed(st) == {t \in Tags : st[t] # NoImage}

\* `rmi --force target` when it succeeds: every tag of that image goes
RmiEffect(st, target) == [t \in Tags |-> IF st[t] = target THEN NoImage ELSE st[t]]

\* `load` of a complete archive: the archive's image takes the tag
LoadEffect(st, id) == [st EXCEPT !["latest"] = id]

(* ---- bundled files ---- *)
ImageIdFiles == {<<>>, <<NL>>} \cup {id \o <<NL>> : id \in Ids}
Bytes == {0, 1}
Archives == UNION {[1..n -> Bytes] : n \in 0..MaxLen}
ChunkSizes == 1..MaxChunk

Min(a, b) == IF a < b THEN a ELSE b

Ceil(n, c) == (n + c - 1) \div c

\* a reader that returns one byte less than asked for
ReadShort(content, pos, n) ==
    SubSeq(content, pos + 1, Min(pos + (IF n > 1 THEN n - 1 ELSE n), Len(content)))

\* a reader that reports the end after its first chunk
ReadOnce(content, pos, n) ==
    IF pos = 0 THEN SubSeq(content, 1, Min(n, Len(content))) ELSE <<>>

\* f.read(chunk_size) on the decompressing reader: full chunks until the end
ReadChunk(content, pos, n) == SubSeq(content, pos + 1, Min(pos + n, Len(content)))

\* any listed image counts as installed
ClassifyAnyImage(found, expected) ==
    IF found # <<>> THEN "Matching" ELSE "Missing"

\* the equality test left out: whatever is listed is old
ClassifyNeverMatching(found, expected) ==
    IF found = <<>> THEN "Missing" ELSE "Stale"

\* the three branches of is_container_installed, in the order the code tests
Classify(found, expected) ==
    IF found = expected THEN "Matching"
    ELSE IF found = <<>> THEN "Missing"
    ELSE "Stale"

\* a removal issued in every branch that found an image
NeedsRemovalAlways(c) == c # "Missing"

\* the else branch is the only one that removes
NeedsRemoval(c) == c = "Stale"

VARIABLES
    store,            \* the runtime's image store
    imageIdFile,      \* content of image-id.txt
    metadataReadable, \* image-id.txt can be opened
    runtimeFound,     \* shutil.which finds podman/docker
    archive,          \* decompressed content of container.tar.gz
    corrupt,          \* the compressed file is truncated after `archive`
    archiveId,        \* id of the image the archive holds
    chunk_size,       \* chunk_size of install_container, scaled down
    pc,               \* position in install_container / is_container_installed
    phase,            \* "pre": the check of line 432, "post": the one of line 456
    calls,            \* calls started so far
    prev,             \* outcome of the preceding call
    outcome,          \* "None", "True", "False", "Raised" or "pending"
    error,            \* which error was raised
    store0,           \* store when the call started
    expected_image_id,
    found_image_id,
    listEmpty,        \* the last listing printed nothing
    cls,              \* branch taken by the last check
    firstCls,         \* branch taken by the check of line 432
    nList, nLoad, nRm,
    rmTarget,         \* argument of the last rmi
    rmOk,             \* the last rmi succeeded
    rmPhases,         \* phases in which an rmi was issued
    pos,              \* bytes read from the archive
    chunk,            \* chunk just read
    written,          \* bytes written to the load pipe
    nWrites,
    eofSeen,          \* a read returned zero bytes
    writesAfterEof,
    pipe,             \* "none", "open", "closed"
    proc,             \* load subprocess: "none", "running", "exited"
    loadExit,         \* exit status of the load subprocess, -1 before it exits
    loadChanged       \* the load changed the store

env == <<imageIdFile, metadataReadable, runtimeFound, archive, corrupt,
         archiveId, chunk_size>>
chk == <<expected_image_id, found_image_id, listEmpty, cls, firstCls>>
cnt == <<nList, nLoad, nRm, rmTarget, rmOk, rmPhases>>
strm == <<pos, chunk, written, nWrites, eofSeen, writesAfterEof>>
ld == <<pipe, proc, loadExit, loadChanged>>
ctl == <<pc, phase, calls, prev, outcome, error, store0>>
vars == <<store, env, chk, cnt, strm, ld, ctl>>

\* the result of shutil.which passed on without the test of line 395
RuntimeAssumed == TRUE

\* get_container_runtime: shutil.which found the executable
RuntimeResolved == runtimeFound

Init ==
    /\ store \in Stores
    /\ imageIdFile \in ImageIdFiles
    /\ metadataReadable \in BOOLEAN
    /\ runtimeFound \in BOOLEAN
    /\ archive \in Archives
    /\ corrupt \in BOOLEAN
    /\ archiveId \in Ids
    /\ chunk_size \in ChunkSizes
    /\ pc = "idle" /\ phase = "pre" /\ calls = 0
    /\ prev = "none" /\ outcome = "pending" /\ error = "none"
    /\ store0 = store
    /\ expected_image_id = <<>> /\ found_image_id = <<>>
    /\ listEmpty = FALSE /\ cls = "none" /\ firstCls = "none"
    /\ nList = 0 /\ nLoad = 0 /\ nRm = 0
    /\ rmTarget = <<>> /\ rmOk = FALSE /\ rmPhases = {}
    /\ pos = 0 /\ chunk = <<>> /\ written = <<>> /\ nWrites = 0
    /\ eofSeen = FALSE /\ writesAfterEof = 0
    /\ pipe = "none" /\ proc = "none" /\ loadExit = -1 /\ loadChanged = FALSE

\* an exception leaves install_container
Raise(e) ==
    /\ pc' = "done"
    /\ outcome' = "Raised"
    /\ error' = e

\* install_container without the early return of line 433
ReturnInstalledReload(installed) ==
    /\ error' = error
    /\ IF phase = "pre"
       THEN pc' = "popen" /\ outcome' = outcome
       ELSE pc' = "done" /\ outcome' = (IF installed THEN "True" ELSE "False")

\* install_container without the check of line 456
ReturnInstalledNoRecheck(installed) ==
    /\ error' = error
    /\ IF phase = "pre"
       THEN IF installed
            THEN pc' = "done" /\ outcome' = "None"
            ELSE pc' = "popen" /\ outcome' = outcome
       ELSE pc' = "done" /\ outcome' = "True"

\* install_container loading again when the check of line 456 fails
ReturnInstalledRetry(installed) ==
    /\ error' = error
    /\ IF installed
       THEN pc' = "done" /\ outcome' = (IF phase = "pre" THEN "None" ELSE "True")
       ELSE pc' = "popen" /\ outcome' = outcome

\* `return installed` of is_container_installed, continued in install_container
ReturnInstalled(installed) ==
    /\ error' = error
    /\ IF phase = "pre"
       THEN IF installed
            THEN pc' = "done" /\ outcome' = "None"
            ELSE pc' = "popen" /\ outcome' = outcome
       ELSE pc' = "done" /\ outcome' = (IF installed THEN "True" ELSE "False")

\* a removal whose failure is not swallowed
RemovalReturnStrict(ok) ==
    IF ok THEN ReturnInstalled(cls = "Matching") ELSE Raise("RemovalFailed")

\* the bare except swallows a failed removal; `installed` is returned as it is
RemovalReturn(ok) == ReturnInstalled(cls = "Matching")

\* install_container is called
Call ==
    /\ pc \in {"idle", "done"}
    /\ calls < MaxCalls
    /\ calls' = calls + 1
    /\ prev' = (IF pc = "done" THEN outcome ELSE "none")
    /\ pc' = "open" /\ phase' = "pre"
    /\ outcome' = "pending" /\ error' = "none"
    /\ store0' = store
    /\ expected_image_id' = <<>> /\ found_image_id' = <<>>
    /\ listEmpty' = FALSE /\ cls' = "none" /\ firstCls' = "none"
    /\ nList' = 0 /\ nLoad' = 0 /\ nRm' = 0
    /\ rmTarget' = <<>> /\ rmOk' = FALSE /\ rmPhases' = {}
    /\ pos' = 0 /\ chunk' = <<>> /\ written' = <<>> /\ nWrites' = 0
    /\ eofSeen' = FALSE /\ writesAfterEof' = 0
    /\ pipe' = "none" /\ proc' = "none" /\ loadExit' = -1 /\ loadChanged' = FALSE
    /\ UNCHANGED <<store, env>>

\* is_container_installed: read image-id.txt
ReadExpected ==
    /\ pc = "open"
    /\ IF metadataReadable
       THEN /\ expected_image_id' = Strip(imageIdFile)
            /\ cls' = "none"
            /\ pc' = "list"
            /\ UNCHANGED <<outcome, error>>
       ELSE /\ Raise("MetadataUnreadable")
            /\ UNCHANGED <<expected_image_id, cls>>
    /\ UNCHANGED <<store, env, found_image_id, listEmpty, firstCls,
                   cnt, strm, ld, phase, calls, prev, store0>>

\* is_container_installed: get_container_runtime() finds no executable
ListNoRuntime ==
    /\ pc = "list"
    /\ ~RuntimeResolved
    /\ Raise("RuntimeNotFound")
    /\ UNCHANGED <<store, env, chk, cnt, strm, ld, phase, calls, prev, store0>>

\* is_container_installed: the image list subprocess exits non-zero
ListFails ==
    /\ pc = "list"
    /\ RuntimeResolved
    /\ nList' = nList + 1
    /\ Raise("ListFailed")
    /\ UNCHANGED <<store, env, chk, nLoad, nRm, rmTarget, rmOk, rmPhases,
                   strm, ld, phase, calls, prev, store0>>

\* is_container_installed: list the images, strip the output, take a branch
ListAndClassify ==
    /\ pc = "list"
    /\ RuntimeResolved
    /\ nList' = nList + 1
    /\ LET out == ListOutput(store)
           found == Strip(out)
           c == Classify(found, expected_image_id)
       IN  /\ found_image_id' = found
           /\ listEmpty' = (out = <<>>)
           /\ cls' = c
           /\ firstCls' = (IF phase = "pre" THEN c ELSE firstCls)
           /\ IF NeedsRemoval(c)
              THEN pc' = "rmi" /\ UNCHANGED <<outcome, error>>
              ELSE ReturnInstalled(c = "Matching")
    /\ UNCHANGED <<store, env, expected_image_id, nLoad, nRm, rmTarget, rmOk,
                   rmPhases, strm, ld, phase, calls, prev, store0>>

\* is_container_installed: rmi --force found_image_id, failure swallowed
RemoveOld ==
    /\ pc = "rmi"
    /\ nRm' = nRm + 1
    /\ rmTarget' = found_image_id
    /\ rmPhases' = rmPhases \cup {phase}
    /\ \E ok \in BOOLEAN :
        /\ ok => (found_image_id \in Ids /\ \E t \in Tags : store[t] = found_image_id)
        /\ rmOk' = ok
        /\ store' = (IF ok THEN RmiEffect(store, found_image_id) ELSE store)
        /\ RemovalReturn(ok)
    /\ UNCHANGED <<env, chk, nList, nLoad, strm, ld, phase, calls, prev, store0>>

\* install_container: start `load` with a pipe on its stdin, open the archive
StartLoad ==
    /\ pc = "popen"
    /\ nLoad' = nLoad + 1
    /\ pipe' = "open" /\ proc' = "running"
    /\ pc' = "read"
    /\ UNCHANGED <<store, env, chk, nList, nRm, rmTarget, rmOk, rmPhases, strm,
                   loadExit, loadChanged, phase, calls, prev, outcome, error, store0>>

\* install_container: chunk = f.read(chunk_size)
ReadArchive ==
    /\ pc = "read"
    /\ ~(corrupt /\ pos = Len(archive))
    /\ LET c == ReadChunk(archive, pos, chunk_size)
       IN  /\ chunk' = c
           /\ pos' = pos + Len(c)
           /\ IF Len(c) > 0
              THEN pc' = "write" /\ UNCHANGED eofSeen
              ELSE pc' = "wait" /\ eofSeen' = TRUE
    /\ UNCHANGED <<store, env, chk, cnt, written, nWrites, writesAfterEof, ld,
                   phase, calls, prev, outcome, error, store0>>

\* install_container: the decompressor raises on the truncated file
ReadRaises ==
    /\ pc = "read"
    /\ corrupt
    /\ Raise("ArchiveCorrupt")
    /\ UNCHANGED <<store, env, chk, cnt, strm, ld, phase, calls, prev, store0>>

\* install_container: p.stdin.write(chunk)
WriteChunk ==
    /\ pc = "write"
    /\ written' = written \o chunk
    /\ nWrites' = nWrites + 1
    /\ writesAfterEof' = writesAfterEof + (IF eofSeen THEN 1 ELSE 0)
    /\ pc' = "read"
    /\ UNCHANGED <<store, env, chk, cnt, pos, chunk, eofSeen, ld,
                   phase, calls, prev, outcome, error, store0>>

\* install_container: the write fails, the load process closed its end
WriteFails ==
    /\ pc = "write"
    /\ proc' = "exited"
    /\ Raise("BrokenPipe")
    /\ UNCHANGED <<store, env, chk, cnt, strm, pipe, loadExit, loadChanged,
                   phase, calls, prev, store0>>

\* install_container: p.communicate() closes the pipe and waits; the exit
\* status is not looked at
Communicate ==
    /\ pc = "wait"
    /\ pipe' = "closed" /\ proc' = "exited"
    /\ \E status \in {0, 1}, tagged \in BOOLEAN :
        /\ tagged => written = archive
        /\ loadExit' = status
        /\ store' = (IF tagged THEN LoadEffect(store, archiveId) ELSE store)
        /\ loadChanged' = (store' # store)
    /\ pc' = "open" /\ phase' = "post"
    /\ UNCHANGED <<env, chk, cnt, strm, calls, prev, outcome, error, store0>>

Next ==
    \/ Call
    \/ ReadExpected
    \/ ListNoRuntime
    \/ ListFails
    \/ ListAndClassify
    \/ RemoveOld
    \/ StartLoad
    \/ ReadArchive
    \/ ReadRaises
    \/ WriteChunk
    \/ WriteFails
    \/ Communicate

Spec == Init /\ [][Next]_vars

\* the steps of a running call: every subprocess call, read and write returns
Step ==
    \/ ReadExpected
    \/ ListNoRuntime
    \/ ListFails
    \/ ListAndClassify
    \/ RemoveOld
    \/ StartLoad
    \/ ReadArchive
    \/ ReadRaises
    \/ WriteChunk
    \/ WriteFails
    \/ Communicate

\* a call that has started keeps running; whether the caller calls is free
FairSpec == Spec /\ WF_vars(Step)

(* ---- the claims ---- *)

Success == {"None", "True"}

\* C1: whenever install_container has finished with None or True, the store
\* lists at most one image under container_name and that image's id is the
\* expected id read from image-id.txt.
C1_SuccessMeansOneExpectedImage ==
    outcome \in Success =>
        /\ Cardinality(Listed(store)) <= 1
        /\ \A t \in Listed(store) : store[t] = Strip(imageIdFile)

\* a stale image was replaced and the call returned True
C1_Witness ==
    /\ outcome = "True"
    /\ firstCls = "Stale"
    /\ store0["latest"] # store["latest"]
    /\ store["latest"] = expected_image_id

C3_Classification ==
    cls # "none" =>
        /\ cls = "Matching" <=> (~listEmpty /\ found_image_id = expected_image_id)
        /\ cls = "Missing" <=> listEmpty
        /\ cls = "Stale" <=> (~listEmpty /\ found_image_id # expected_image_id)

\* C4: a call whose load subprocess exited non-zero does not end in None or
\* True.
C4_NonZeroExitFails ==
    (pc = "done" /\ loadExit > 0) => outcome \notin Success

\* C5 as stated: when the load exited non-zero without changing the store, the
\* store after the call is the store before it.
C5_StoreAsBefore ==
    (pc = "done" /\ loadExit > 0 /\ ~loadChanged) => store = store0

\* C5 amended: when the load exited non-zero without changing the store, the
\* store after the call is the store before it if the first check found no
\* image, and the store before it with or without the stale image if the first
\* check found a stale one.
C5_StoreAsBeforeButStale ==
    (pc = "done" /\ loadExit > 0 /\ ~loadChanged) =>
        /\ firstCls = "Missing" => store = store0
        /\ firstCls = "Stale" =>
              store \in {store0, RmiEffect(store0, Strip(ListOutput(store0)))}

\* nothing installed, the archive was streamed, the load failed
C5_Witness ==
    /\ pc = "done" /\ loadExit = 1 /\ ~loadChanged
    /\ firstCls = "Missing"
    /\ nWrites > 0
    /\ outcome = "False"
    /\ store = store0

\* C6: a call whose first check is Matching returns None after one image list
\* query, no load and no removal, and leaves the store as it was.
C6_MatchingDoesNothing ==
    (pc = "done" /\ firstCls = "Matching") =>
        /\ outcome = "None"
        /\ nList = 1 /\ nLoad = 0 /\ nRm = 0
        /\ pipe = "none" /\ proc = "none"
        /\ store = store0

\* the expected image is installed and the call has returned
C6_Witness ==
    /\ pc = "done" /\ firstCls = "Matching"
    /\ expected_image_id \in Ids
    /\ store["latest"] = expected_image_id

\* C7: a Stale first check is followed by one removal of the id just found,
\* the removal is followed by the start of the load whether it succeeded or
\* not, and the call returns True when the load exits zero and the check after
\* it is Matching.
C7_RemovalIsBestEffort ==
    [][ /\ (pc = "list" /\ phase = "pre" /\ firstCls' = "Stale") =>
              (pc' = "rmi" /\ nRm' = 0)
        /\ (pc = "rmi" /\ phase = "pre") =>
              /\ nRm' = 1 /\ rmTarget' = found_image_id
              /\ pc' = "popen" /\ outcome' = "pending"
        /\ (pc = "popen") => (pc' = "read" /\ nLoad' = 1 /\ proc' = "running")
        /\ (firstCls' = "Stale" /\ pc' = "done" /\ phase' = "post"
                /\ loadExit' = 0 /\ cls' = "Matching") => outcome' = "True"
      ]_vars

\* the removal of the stale image failed and the call still installed
C7_Witness ==
    /\ pc = "done" /\ firstCls = "Stale"
    /\ nRm = 1 /\ ~rmOk
    /\ loadExit = 0
    /\ outcome = "True"

\* C8: with the runtime and the metadata available, a failed image list
\* query, a decompression error or a failed pipe write ends the call with a
\* returned value, never with a raised error.
C8_FailuresAreReturned ==
    (runtimeFound /\ metadataReadable /\ pc = "done") => outcome # "Raised"

\* C9: the bytes written to the load pipe are always a prefix of the
\* decompressed archive; once a read has returned zero bytes they are the
\* whole archive, written in ceil(N/C) writes, and no write follows.
C9_StreamingFidelity ==
    /\ Len(written) <= Len(archive)
    /\ written = SubSeq(archive, 1, Len(written))
    /\ writesAfterEof = 0
    /\ eofSeen =>
          /\ written = archive
          /\ nWrites = Ceil(Len(archive), chunk_size)

\* an archive that ends in a partial chunk has been streamed
C9_Witness ==
    /\ eofSeen
    /\ chunk_size = 2
    /\ Len(archive) = 3
    /\ nWrites = 2
    /\ written = archive

\* C10: True is returned only after exactly one load and a Matching check
\* after it, None only without a load, and a load that exits zero followed by
\* a check that is not Matching gives False.
C10_OutcomeTellsWork ==
    /\ outcome = "True" => (nLoad = 1 /\ phase = "post" /\ cls = "Matching")
    /\ outcome = "None" => (nLoad = 0 /\ phase = "pre")
    /\ (pc = "done" /\ phase = "post" /\ loadExit = 0
            /\ cls \in {"Missing", "Stale"}) => outcome = "False"

\* the load exited zero but the archive held another image than expected
C10_Witness ==
    /\ pc = "done" /\ phase = "post"
    /\ loadExit = 0 /\ loadChanged
    /\ cls = "Stale"
    /\ outcome = "False"

\* C11 as stated: when the runtime executable is not found, the call ends
\* with the runtime-not-found error, no image list, load or removal has been
\* started and the store is as before.
C11_NoRuntimeFailsFast ==
    (~runtimeFound /\ pc = "done") =>
        /\ outcome = "Raised" /\ error = "RuntimeNotFound"
        /\ nList = 0 /\ nLoad = 0 /\ nRm = 0
        /\ store = store0

\* C11 amended: when the runtime executable is not found, the call ends with
\* a raised error, which is the runtime-not-found error when image-id.txt
\* could be read; no image list, load or removal has been started and the
\* store is as before.
C11_NoRuntimeFailsFastAfterMetadata ==
    (~runtimeFound /\ pc = "done") =>
        /\ outcome = "Raised"
        /\ metadataReadable => error = "RuntimeNotFound"
        /\ nList = 0 /\ nLoad = 0 /\ nRm = 0
        /\ pipe = "none" /\ proc = "none"
        /\ store = store0

\* image-id.txt was read, the executable was not found, the call has raised
C11_Witness ==
    /\ ~runtimeFound /\ metadataReadable
    /\ pc = "done"
    /\ error = "RuntimeNotFound"
    /\ Listed(store) # {}

\* C12: within one call a removal is issued at most once and only by the
\* check made before the load; the check made after the load issues none and
\* leaves the store as the load left it.
C12_RemovalOnlyBeforeLoad ==
    /\ nRm <= 1
    /\ rmPhases \subseteq {"pre"}
    /\ pc = "rmi" => phase = "pre"

\* C13: the check after the load starts only when the whole archive has been
\* written, the pipe is closed and the load subprocess has exited; its branch
\* is computed from a listing of the store as it is then, by a new query.
C13_PostCheckIsFresh ==
    [][ /\ phase' = "post" =>
              /\ eofSeen' /\ written' = archive
              /\ pipe' = "closed" /\ proc' = "exited" /\ loadExit' \in {0, 1}
        /\ (phase = "post" /\ cls = "none" /\ cls' # "none") =>
              /\ nList' = nList + 1
              /\ found_image_id' = Strip(ListOutput(store))
              /\ listEmpty' = (ListOutput(store) = <<>>)
              /\ cls' = Classify(found_image_id', expected_image_id)
      ]_vars

\* the check after a load of several chunks saw another listing than the first
C13_Witness ==
    /\ phase = "post" /\ cls = "Matching" /\ pc = "done"
    /\ firstCls = "Stale"
    /\ nList = 2
    /\ nWrites >= 2
    /\ found_image_id # Strip(ListOutput(store0))

\* C14: one call starts at most one load subprocess and issues at most two
\* image list queries, the second one only after the load.
C14_NoInternalRetry ==
    /\ nLoad <= 1
    /\ nList <= 2
    /\ nList = 2 => (nLoad = 1 /\ phase = "post")
    /\ phase = "pre" => nList <= 1

\* a call has failed after one load and two queries
C14_Witness ==
    /\ pc = "done" /\ outcome = "False"
    /\ nLoad = 1 /\ nList = 2

Returned == {"None", "True", "False"}

\* C15: with the runtime and the metadata available, every call that has
\* started eventually ends with exactly one of the values None, True, False.
C15_EndsInOneOutcome ==
    [](  (pc = "open" /\ phase = "pre" /\ runtimeFound /\ metadataReadable)
      => <>(pc = "done" /\ outcome \in Returned))

\* every call that has started eventually ends, by a value or by an error
C15_Terminates ==
    [](pc = "open" => <>(pc = "done"))

\* C16: the id that a check classifies, and removes when Stale, is the first
\* id of the listing, trimmed; an empty listing gives no current id, no
\* removal and no error.
C16_FirstIdentifierIsCurrent ==
    [][ (pc = "list" /\ cls' # "none") =>
            /\ found_image_id' = FirstLine(ListOutput(store))
            /\ cls' = Classify(FirstLine(ListOutput(store)), expected_image_id)
            /\ ListOutput(store) = <<>> =>
                  (found_image_id' = <<>> /\ pc' # "rmi" /\ outcome' # "Raised")
      ]_vars

\* C17: a removal targets the id the listing just gave, which is neither the
\* expected id nor empty, and no removal takes the expected image out of the
\* store.
C17_NeverRemovesExpected ==
    [][ pc = "rmi" =>
            /\ rmTarget' = Strip(ListOutput(store))
            /\ rmTarget' # expected_image_id
            /\ rmTarget' # <<>>
            /\ \A t \in Tags : store[t] = expected_image_id => store'[t] = store[t]
      ]_vars

\* the one listed image was not the expected one and has been removed
C17_Witness ==
    /\ nRm = 1 /\ pc = "popen"
    /\ rmOk
    /\ rmTarget \in Ids /\ rmTarget # expected_image_id
    /\ expected_image_id \in Ids
    /\ store # store0

\* C18: a call that has started a load subprocess and has ended has closed
\* the subprocess's pipe and waited for it.
C18_LoadIsReaped ==
    (pc = "done" /\ nLoad > 0) => (pipe = "closed" /\ proc = "exited" /\ loadExit # -1)

====
